---- MODULE Spec2Model ----
(***************************************************************************)
(* pywatch: coincidence detection over several serial detectors.           *)
(*                                                                         *)
(* The model covers DetectorPool (detector_pool.py), the Detector          *)
(* connection state (async_detector.py), the EventDataCollection store     *)
(* (event_data_collection.py) and the retry loop of                        *)
(* measurement_from_script (_measurement.py).                              *)
(*                                                                         *)
(* A hit is modelled by the one field the pool looks at, comp_time; the    *)
(* other five fields travel with it unchanged.  The asyncio tasks of one   *)
(* run are interleaved at their await points: a task runs from the return  *)
(* of dt.measurement() to its next await without interruption, and the     *)
(* supervising coroutine run_() resumes some loop iterations after the     *)
(* first task has completed, so other tasks may still step in between.     *)
(* The callback executor is a separate OS process fed through a pipe; a    *)
(* send on a full pipe blocks the sender.                                  *)
(*                                                                         *)
(* Two further specifications use one object on its own: StoreSpec an      *)
(* EventDataCollection, DetSpec a single Detector with save_data = True.   *)
(***************************************************************************)
EXTENDS Integers, Sequences, FiniteSets, TLC

\* ---------------------------------------------------------------- bounds
NumPorts == 2                    \* number of ports handed to DetectorPool
MaxEvents == 2                   \* largest `events` argument of run()
EVENT_COUNT == 2                 \* module_.EVENT_COUNT of the measurement script
PipeCapacity == 3                \* messages the pipe holds before send blocks

\* ------------------------------------------------------------- constants
threshold == 10                  \* module_.THRESHOLD default
InitialTries == 5                \* tries = 5

Ports == 0 .. (NumPorts - 1)

\* Host-clock instants (ms) at which a line may arrive: pairs 5 ms apart,
\* the pairs far more than threshold apart.
TimePoints == {0, 5, 1000, 1005, 2000}

\* the instants used when measurement_from_script drives the pool
OrchTimePoints == {0, 5, 1000}

None == [none |-> TRUE]
HitRecord(t) == [comp_time |-> t]
NoEvent == << >>

VARIABLES
    isOpen,                      \* Detector._reader is not None, per detector
    event_data,                  \* DetectorPool._event_data: index -> hit
    first_coincidence_hit_time,  \* DetectorPool._first_coincidence_hit_time
    pool_data,                   \* DetectorPool._data: [dct, len] of EventDataCollection
    hits,                        \* async_run argument
    callback,                    \* TRUE iff a callback was passed to run()
    counted_hits,                \* async_run local
    finished,                    \* async_run local
    task,                        \* state of each run_detector task
    taskResult,                  \* what each completed task returned / raised
    pipe,                        \* messages sent on c2 and not yet received on c1
    executor,                    \* callback_process: state and loop counter
    cbLog,                       \* arguments the callback was invoked with, in order
    pc,                          \* position of DetectorPool.run
    async_result,                \* value async_run is about to return
    result,                      \* value run() returns
    clock,                       \* host clock: comp_time of the latest line read
    lock,                        \* async_run local: the asyncio.Lock is held
    held,                        \* dt[-1] of a loop suspended inside its loop body, else 0
    stopLen,                     \* history: store length when the first task of the run stopped
    failLen,                     \* history: store length at the first read failure of the run, else -1
    opc,                         \* position of measurement_from_script
    events_run, tries, last_event_count, data,  \* locals of measurement_from_script
    zero_run,                    \* history: how many of the latest invocations in a row reported 0 events
    feed,                        \* scripted arrival times per port (scenario runs)
    nread,                       \* lines consumed from feed, per port
    nreadStart,                  \* nread when the current run() was called
    lastOp,                      \* the last call made on a Detector or store used on its own
    arg,                         \* the event passed to the last add_event
    run_hits,                    \* the hits argument of the last Detector.run
    raised,                      \* what that call raised, NoExc if it returned
    reader,                      \* Detector._reader is not None (a Detector used on its own)
    dt_events,                   \* Detector._events
    dt_idx,                      \* Detector._index
    run_result,                  \* the list the last Detector.run returned
    yielded,                     \* what the last `for hit in dt` has yielded so far
    for_pc,                      \* position of that for loop
    s_dct,                       \* EventDataCollection._dct: field -> detector -> column
    s_len,                       \* EventDataCollection._len
    added                        \* history: the lists add_event returned for since the last clear

vars == << isOpen, event_data, first_coincidence_hit_time, pool_data, hits,
           callback, counted_hits, finished, task, taskResult, pipe, executor,
           cbLog, pc, async_result, result, clock, lock, held, stopLen, failLen,
           opc, events_run, tries, last_event_count, data, zero_run,
           feed, nread, nreadStart,
           lastOp, arg, run_hits, raised, reader, dt_events, dt_idx,
           run_result, yielded, for_pc, s_dct, s_len, added >>

poolVars == << isOpen, event_data, first_coincidence_hit_time, pool_data, hits,
               callback, counted_hits, finished, task, taskResult, pipe,
               executor, cbLog, pc, async_result, result, clock, lock, held,
               stopLen, failLen >>

\* what the read loops and run() own: everything but the executor's side
engineVars == << isOpen, event_data, first_coincidence_hit_time, pool_data,
                 hits, callback, counted_hits, finished, task, taskResult,
                 pc, async_result, result, clock, lock, held >>

orchVars == << opc, events_run, tries, last_event_count, data, zero_run >>

feedVars == << feed, nread, nreadStart >>

\* a Detector or an EventDataCollection used without a pool
unitVars == << lastOp, arg, run_hits, raised, reader, dt_events, dt_idx,
               run_result, yielded, for_pc, s_dct, s_len, added >>

\* ------------------------------------------------- EventDataCollection
\* variant of AsList that loses the hit of the last detector
AsList_without_last(event) ==
    [p \in Ports |-> IF p \in DOMAIN event /\ p # NumPorts - 1
                     THEN event[p] ELSE None]

\* positional view of an event: the hit of each detector index, or None
AsList(event) == [p \in Ports |-> IF p \in DOMAIN event THEN event[p] ELSE None]

\* EventDataCollection.__init__: one empty column per detector, _len = 0
EmptyCollection == [dct |-> [p \in Ports |-> << >>], len |-> 0]

\* variant of add_event that forgets to count the event
add_event_uncounted(c, event) ==
    [dct |-> [p \in Ports |-> Append(c.dct[p], AsList(event)[p])],
     len |-> c.len]

\* add_event: append one cell to every detector's column, then _len += 1
add_event(c, event) ==
    [dct |-> [p \in Ports |-> Append(c.dct[p], AsList(event)[p])],
     len |-> c.len + 1]

\* clear: every column emptied, _len = 0
clear(c) == [dct |-> [p \in Ports |-> << >>], len |-> 0]

\* get_event(index), 1-based here: the list of hits or None per detector
get_event(index) == [p \in Ports |-> pool_data.dct[p][index]]

\* __len__
len_ == pool_data.len

\* the detector indices that contributed to stored event number index
Contributors(index) == {p \in Ports : get_event(index)[p] # None}

\* EventData.to_dict of stored event number index: absent indices omitted
to_dict(index) == [p \in Contributors(index) |-> get_event(index)[p]]

\* EventDataCollection._keys
keys_ == << "comp_time", "ard_time", "amplitude", "sipm_voltage",
            "dead_time", "temp" >>
KeySet == {keys_[i] : i \in 1..Len(keys_)}

\* a hit as the Detector builds it: a value under every key
HitData(t) == [k \in KeySet |-> t]

\* EventDataCollection.__init__(detector_count): under every key one empty
\* list per detector
EmptyColumns == [k \in KeySet |-> [p \in Ports |-> << >>]]

\* ------------------------------------------------------------ exceptions
NoExc == "None"
ReadError == "SerialException"          \* raised by dt.measurement()
NameErr == "NameError"                  \* c2 unbound when no callback was given
PortNotOpen == "PortNotOpenError"       \* Detector.close on a closed port
AlreadyOpen == "port already open"      \* Detector.open on an open port
OpenError == "SerialException(open)"    \* open_serial_connection failed
IndexErr == "IndexError"                \* a list indexed past its end
KeyErr == "KeyError"                    \* a hit without the field asked for

Result(n, e) == [count |-> n, exc |-> e]
Msg(k, ev) == [kind |-> k, event |-> ev]

Done == {"finished", "failed", "raised"}

\* --------------------------------------------------------------- Detector
\* Detector.close over all detectors (DetectorPool.close gathers them):
\* a detector whose writer is None raises PortNotOpenError
closeRaises(o) == \E p \in Ports : ~o[p]
close(o) == [p \in Ports |-> FALSE]

\* Detector.open over all detectors (DetectorPool.open gathers them): an
\* open detector raises "port already open"; a port in `failing` cannot
\* be connected; every other detector has its reader set
openRaises(o, failing) == \E p \in Ports : o[p] \/ p \in failing
openExc(o) == IF \E p \in Ports : o[p] THEN AlreadyOpen ELSE OpenError
open(o, failing) == [p \in Ports |-> o[p] \/ p \notin failing]

\* DetectorPool.is_open looks at detector 0 only
is_open == isOpen[0]

\* ------------------------------------------------------------------ Init
NoFeed == [p \in Ports |-> << >>]

InitPool ==
    /\ isOpen = [p \in Ports |-> FALSE]
    /\ event_data = NoEvent
    /\ first_coincidence_hit_time = 0
    /\ pool_data = EmptyCollection
    /\ hits = 0
    /\ callback = FALSE
    /\ counted_hits = 0
    /\ finished = FALSE
    /\ task = [p \in Ports |-> "none"]
    /\ taskResult = [p \in Ports |-> Result(0, NoExc)]
    /\ pipe = << >>
    /\ executor = [state |-> "none", iter |-> 0]
    /\ cbLog = << >>
    /\ pc = "idle"
    /\ async_result = Result(0, NoExc)
    /\ result = Result(0, NoExc)
    /\ clock = 0
    /\ lock = FALSE
    /\ held = [p \in Ports |-> 0]
    /\ stopLen = -1
    /\ failLen = -1
    /\ events_run = 0
    /\ tries = InitialTries
    /\ last_event_count = -1
    /\ zero_run = 0
    /\ data = << >>
    /\ nread = [p \in Ports |-> 0]
    /\ nreadStart = [p \in Ports |-> 0]

\* Detector.__init__, and no call made yet
InitUnit ==
    /\ lastOp = "none"
    /\ arg = NoEvent
    /\ run_hits = 0
    /\ raised = NoExc
    /\ reader = FALSE
    /\ dt_events = << >>
    /\ dt_idx = -1
    /\ run_result = << >>
    /\ yielded = << >>
    /\ for_pc = "none"
    /\ s_dct = EmptyColumns
    /\ s_len = 0
    /\ added = << >>

\* a script that calls pool.run directly
Init == InitPool /\ InitUnit /\ opc = "direct" /\ feed = NoFeed

\* python -m pywatch --measurement: measurement_from_script drives the pool
OrchInit == InitPool /\ InitUnit /\ opc = "while" /\ feed = NoFeed

\* ------------------------------------------------------- DetectorPool.run
\* run(events, callback): close if open, open, then start async_run.
\* `failing` is the set of ports that cannot be connected this time.
run(events, cb, failing) ==
    /\ pc = "idle"
    /\ hits' = events
    /\ callback' = cb
    /\ counted_hits' = 0
    /\ finished' = FALSE
    /\ taskResult' = [p \in Ports |-> Result(0, NoExc)]
    /\ pipe' = << >>
    /\ cbLog' = << >>
    /\ async_result' = Result(0, NoExc)
    /\ stopLen' = -1
    /\ failLen' = -1
    /\ nreadStart' = nread
    /\ lock' = FALSE
    /\ held' = [p \in Ports |-> 0]
    /\ UNCHANGED << clock, event_data, feed, nread >>
    /\ UNCHANGED unitVars
    /\ IF is_open /\ closeRaises(isOpen)
       THEN \* self.close() raised: open() is never reached
            /\ isOpen' = close(isOpen)
            /\ UNCHANGED << pool_data, first_coincidence_hit_time >>
            /\ task' = [p \in Ports |-> "none"]
            /\ executor' = [state |-> "none", iter |-> 0]
            /\ result' = Result(0, PortNotOpen)
            /\ pc' = "returned"
       ELSE LET o == IF is_open THEN close(isOpen) ELSE isOpen IN
            \* DetectorPool.open: state reset, then the ports are opened
            /\ pool_data' = clear(pool_data)
            /\ first_coincidence_hit_time' = 0
            /\ isOpen' = open(o, failing)
            /\ IF openRaises(o, failing)
               THEN /\ task' = [p \in Ports |-> "none"]
                    /\ executor' = [state |-> "none", iter |-> 0]
                    /\ result' = Result(0, openExc(o))
                    /\ pc' = "returned"
               ELSE \* async_run: executor process started, one task per detector
                    /\ task' = [p \in Ports |-> "reading"]
                    /\ executor' = [state |-> IF cb THEN "running" ELSE "none",
                                    iter |-> 0]
                    /\ result' = Result(0, NoExc)
                    /\ pc' = "running"

\* variant of in_threshold with the operands of the difference swapped
in_threshold_swapped(t, first) == first - t <= threshold

\* the hit lies inside the current window
in_threshold(t, first) == t - first <= threshold

\* variant of merged in which a later hit of a detector replaces its entry
merged_latest(event, dt_index, t) ==
    (dt_index :> HitRecord(t)) @@ event

\* if dt_index in self._event_data.keys(): continue
\* self._event_data[dt_index] = dt[-1]
merged(event, dt_index, t) ==
    IF dt_index \in DOMAIN event THEN event
    ELSE event @@ (dt_index :> HitRecord(t))

\* variant of has_coincidence that accepts a window with a single hit
has_coincidence_single(event) == Cardinality(DOMAIN event) > 0

\* the window holds hits of more than one detector
has_coincidence(event) == Cardinality(DOMAIN event) > 1

\* the target number of events is reached
target_reached(counted, target) == counted = target

\* c2.send blocks while the pipe is full
can_send(n) == Len(pipe) + n <= PipeCapacity

\* variant of lock_suspends in which taking the lock always gives the
\* event loop to the other tasks first
lock_suspends_always(locked) == TRUE

\* `async with lock`: Lock.acquire suspends the caller only when the lock
\* is held; a free lock is taken without leaving the task
lock_suspends(locked) == locked

\* run_detector, the loop body from the test of counted_hits on, its value
\* being `counted`: stop at the target, else start the next window with
\* dt[-1]
after_count(dt_index, t, counted) ==
    /\ counted_hits' = counted
    /\ IF target_reached(counted, hits)
       THEN /\ finished' = TRUE
            /\ task' = [task EXCEPT ![dt_index] = "finished"]
            /\ taskResult' = [taskResult EXCEPT
                                ![dt_index] = Result(counted, NoExc)]
            /\ stopLen' = IF stopLen = -1 THEN pool_data'.len ELSE stopLen
            /\ UNCHANGED << first_coincidence_hit_time, event_data >>
       ELSE /\ first_coincidence_hit_time' = t
            /\ event_data' = (dt_index :> HitRecord(t))
            /\ task' = [task EXCEPT ![dt_index] = "reading"]
            /\ UNCHANGED << finished, taskResult, stopLen >>

\* run_detector, one pass of the loop body after dt.measurement() returned
\* a hit with comp_time t for detector dt_index (dt[-1] is that hit).  The
\* task runs on until an await suspends it: the only await of the body is
\* `async with lock`.  A task that was suspended there continues here
\* with the hit it holds.
Hit(dt_index, t) ==
    /\ pc = "running"
    /\ IF task[dt_index] = "locking"
       THEN \* the lock is free now: counted_hits += 1 and on
            /\ t = held[dt_index]
            /\ ~lock
            /\ UNCHANGED << clock, pipe, pool_data, lock >>
            /\ after_count(dt_index, t, counted_hits + 1)
            /\ held' = [held EXCEPT ![dt_index] = 0]
       ELSE /\ task[dt_index] = "reading"
            /\ t >= clock
            /\ clock' = t
            /\ IF in_threshold(t, first_coincidence_hit_time)
               THEN /\ event_data' = merged(event_data, dt_index, t)
                    /\ UNCHANGED << first_coincidence_hit_time, pool_data,
                                    counted_hits, finished, task, taskResult,
                                    pipe, stopLen, lock, held >>
               ELSE IF has_coincidence(event_data)
               THEN /\ callback => can_send(1)
                    /\ pipe' = IF callback
                               THEN Append(pipe, Msg("event", event_data))
                               ELSE pipe
                    /\ pool_data' = add_event(pool_data, event_data)
                    /\ IF lock_suspends(lock)
                       THEN /\ task' = [task EXCEPT ![dt_index] = "locking"]
                            /\ held' = [held EXCEPT ![dt_index] = t]
                            /\ UNCHANGED << first_coincidence_hit_time,
                                            event_data, counted_hits, finished,
                                            taskResult, stopLen, lock >>
                       ELSE /\ after_count(dt_index, t, counted_hits + 1)
                            /\ UNCHANGED << lock, held >>
               ELSE /\ UNCHANGED << pipe, pool_data, lock, held >>
                    /\ after_count(dt_index, t, counted_hits)
    /\ UNCHANGED << isOpen, hits, callback, executor, cbLog, pc, async_result,
                    result, failLen >>
    /\ UNCHANGED orchVars
    /\ UNCHANGED << feed, nreadStart >>
    /\ UNCHANGED unitVars

\* run_detector, dt.measurement() raised: the except branch
Fail(dt_index) ==
    /\ pc = "running"
    /\ task[dt_index] = "reading"
    /\ finished' = TRUE
    /\ failLen' = IF failLen = -1 THEN len_ ELSE failLen
    /\ stopLen' = IF stopLen = -1 THEN len_ ELSE stopLen
    /\ IF callback
       THEN /\ can_send(1)
            /\ pipe' = Append(pipe, Msg("ERROR", NoEvent))
            /\ task' = [task EXCEPT ![dt_index] = "failed"]
            /\ taskResult' = [taskResult EXCEPT
                                ![dt_index] = Result(counted_hits, ReadError)]
       ELSE \* c2 was never bound: c2.send raises NameError out of the task
            /\ pipe' = pipe
            /\ task' = [task EXCEPT ![dt_index] = "raised"]
            /\ taskResult' = [taskResult EXCEPT
                                ![dt_index] = Result(0, NameErr)]
    /\ UNCHANGED << isOpen, event_data, first_coincidence_hit_time, pool_data,
                    hits, callback, counted_hits, executor, cbLog, pc,
                    async_result, result, clock, lock, held >>
    /\ UNCHANGED orchVars
    /\ UNCHANGED feedVars
    /\ UNCHANGED unitVars

\* the messages the cancelled tasks send from their except branch
CancelMsgs(n) == [i \in 1 .. n |-> Msg("ERROR", NoEvent)]

\* run_(): asyncio.wait returned; cancel what is pending, take the result
\* of one completed task.  Without a callback async_run returns at once
\* and run() closes the pool.
Supervise ==
    /\ pc = "running"
    /\ \E c \in Ports :
         /\ task[c] \in Done
         /\ task' = [p \in Ports |->
                        IF task[p] \in Done THEN task[p]
                        ELSE IF task[p] = "locking" THEN "dropped"
                        ELSE "cancelled"]
         /\ IF task[c] = "raised"
            THEN \* .result() re-raises; run() catches it and skips close()
                 /\ result' = Result(result.count, taskResult[c].exc)
                 /\ pc' = "returned"
                 /\ UNCHANGED << isOpen, async_result >>
            ELSE IF callback
            THEN /\ async_result' = taskResult[c]
                 /\ pc' = "joining"
                 /\ UNCHANGED << isOpen, result >>
            ELSE /\ async_result' = taskResult[c]
                 /\ result' = taskResult[c]
                 /\ isOpen' = close(isOpen)
                 /\ pc' = "returned"
    /\ UNCHANGED << event_data, first_coincidence_hit_time, pool_data, hits,
                    callback, counted_hits, finished, taskResult, pipe,
                    executor, cbLog, clock, lock, held, stopLen, failLen >>
    /\ UNCHANGED orchVars
    /\ UNCHANGED feedVars
    /\ UNCHANGED unitVars

\* callback_process.join() returned; async_run returns, run() closes the
\* pool; the cancelled tasks run their except branch meanwhile
Join ==
    /\ pc = "joining"
    /\ executor.state \in {"exited", "crashed"}
    /\ LET n == Cardinality({p \in Ports : task[p] = "cancelled"}) IN
       /\ can_send(n)
       /\ pipe' = pipe \o CancelMsgs(n)
    /\ result' = async_result
    /\ isOpen' = close(isOpen)
    /\ pc' = "returned"
    /\ UNCHANGED << event_data, first_coincidence_hit_time, pool_data, hits,
                    callback, counted_hits, finished, task, taskResult,
                    executor, cbLog, async_result, clock, lock, held, stopLen,
                    failLen >>
    /\ UNCHANGED orchVars
    /\ UNCHANGED feedVars
    /\ UNCHANGED unitVars

\* callback_executor: one pass of the loop, the callback returning normally
ExecRecv ==
    /\ executor.state = "running"
    /\ pipe # << >>
    /\ pipe' = Tail(pipe)
    /\ IF Head(pipe).kind = "ERROR"
       THEN /\ executor' = [executor EXCEPT !.state = "exited"]
            /\ cbLog' = cbLog
       ELSE /\ cbLog' = Append(cbLog, Head(pipe).event)
            /\ executor' = [state |-> IF executor.iter + 1 = hits
                                      THEN "exited" ELSE "running",
                            iter |-> executor.iter + 1]
    /\ UNCHANGED << stopLen, failLen >>
    /\ UNCHANGED engineVars
    /\ UNCHANGED orchVars
    /\ UNCHANGED feedVars
    /\ UNCHANGED unitVars

\* callback_executor: the callback raises, which ends the child process
ExecCallbackRaises ==
    /\ executor.state = "running"
    /\ pipe # << >>
    /\ Head(pipe).kind = "event"
    /\ pipe' = Tail(pipe)
    /\ cbLog' = Append(cbLog, Head(pipe).event)
    /\ executor' = [executor EXCEPT !.state = "crashed"]
    /\ UNCHANGED << stopLen, failLen >>
    /\ UNCHANGED engineVars
    /\ UNCHANGED orchVars
    /\ UNCHANGED feedVars
    /\ UNCHANGED unitVars

\* run() hands its result to the caller: the locals of run and async_run,
\* the pipe and the executor process are gone; the pool keeps its
\* detectors, its window and its store
returns ==
    /\ pc = "returned"
    /\ pc' = "idle"
    /\ hits' = 0
    /\ callback' = FALSE
    /\ counted_hits' = 0
    /\ finished' = FALSE
    /\ task' = [p \in Ports |-> "none"]
    /\ taskResult' = [p \in Ports |-> Result(0, NoExc)]
    /\ pipe' = << >>
    /\ executor' = [state |-> "none", iter |-> 0]
    /\ cbLog' = << >>
    /\ async_result' = Result(0, NoExc)
    /\ result' = Result(0, NoExc)
    /\ stopLen' = -1
    /\ failLen' = -1
    /\ lock' = FALSE
    /\ held' = [p \in Ports |-> 0]
    /\ UNCHANGED << isOpen, event_data, first_coincidence_hit_time, pool_data,
                    clock >>
    /\ UNCHANGED feedVars
    /\ UNCHANGED unitVars

\* --------------------------------------------- a script calling pool.run
DirectRun ==
    /\ opc = "direct"
    /\ \E events \in 1 .. MaxEvents, cb \in BOOLEAN, failing \in SUBSET Ports :
         run(events, cb, failing)
    /\ UNCHANGED orchVars

DirectReturn ==
    /\ opc = "direct"
    /\ returns
    /\ UNCHANGED orchVars

HitAny ==
    /\ \E p \in Ports, t \in TimePoints : Hit(p, t)
    /\ UNCHANGED nread

FailAny == \E p \in Ports : Fail(p)

\* ------------------------------------------------ measurement_from_script
\* variant of next_tries that charges every invocation without progress
next_tries_any_zero(n, event_count, last) ==
    IF event_count = 0 \/ last = 0 THEN n - 1 ELSE n

\* if event_count == 0 and last_event_count == 0: tries -= 1
next_tries(n, event_count, last) ==
    IF event_count = 0 /\ last = 0 THEN n - 1 ELSE n

\* if tries == 1: break
gives_up(n) == n = 1

\* while events_run < EVENT_COUNT: pool.run(EVENT_COUNT - events_run, outer_callback)
OrchCall ==
    /\ opc = "while"
    /\ events_run < EVENT_COUNT
    /\ \E failing \in SUBSET Ports : run(EVENT_COUNT - events_run, TRUE, failing)
    /\ opc' = "called"
    /\ UNCHANGED << events_run, tries, last_event_count, data, zero_run >>

\* the loop body after pool.run returned (event_count, e)
OrchAfter ==
    /\ opc = "called"
    /\ LET event_count == result.count
           tries_ == next_tries(tries, event_count, last_event_count)
       IN
       /\ tries' = tries_
       /\ events_run' = events_run + event_count
       /\ zero_run' = IF event_count = 0 THEN zero_run + 1 ELSE 0
       /\ data' = IF Len(data) = 0
                  THEN [i \in 1 .. len_ |-> to_dict(i)]
                  ELSE data
       /\ IF gives_up(tries_)
          THEN /\ opc' = "aborted"           \* break, then save
               /\ last_event_count' = last_event_count
          ELSE /\ opc' = "while"
               /\ last_event_count' = event_count
    /\ returns

\* the while condition is false: save and finish
OrchExit ==
    /\ opc = "while"
    /\ events_run >= EVENT_COUNT
    /\ opc' = "done"
    /\ UNCHANGED << events_run, tries, last_event_count, data, zero_run >>
    /\ UNCHANGED poolVars
    /\ UNCHANGED feedVars
    /\ UNCHANGED unitVars

OrchHitAny ==
    /\ \E p \in Ports, t \in OrchTimePoints : Hit(p, t)
    /\ UNCHANGED nread

\* ---------------------------------------------------------------- specs
Next ==
    \/ DirectRun
    \/ DirectReturn
    \/ HitAny
    \/ FailAny
    \/ Supervise
    \/ Join
    \/ ExecRecv
    \/ ExecCallbackRaises

Spec == Init /\ [][Next]_vars

OrchNext ==
    \/ OrchCall
    \/ OrchAfter
    \/ OrchExit
    \/ OrchHitAny
    \/ FailAny
    \/ Supervise
    \/ Join
    \/ ExecRecv
    \/ ExecCallbackRaises

OrchSpec == OrchInit /\ [][OrchNext]_vars

\* ------------------------------------------------------- scripted feeds
\* Scenario A: source 0 hits at 0 and 1000, source 1 at 5 and 1005
ScenarioA == [p \in Ports |-> IF p = 0 THEN << 0, 1000 >>
                              ELSE IF p = 1 THEN << 5, 1005 >> ELSE << >>]

\* Scenario B: only source 0 ever hits
ScenarioB == [p \in Ports |-> IF p = 0 THEN << 0, 5, 50, 100, 150 >> ELSE << >>]

\* a long train of coincidences, one pair every second, more of them
\* than the pipe can hold
LongTarget == PipeCapacity + 2
ScenarioTrain ==
    [p \in Ports |-> IF p = 0 THEN [i \in 1 .. LongTarget + 1 |-> 1000 * (i - 1)]
                     ELSE IF p = 1 THEN [i \in 1 .. LongTarget |-> 1000 * (i - 1) + 5]
                     ELSE << >>]

Scenarios == {ScenarioA, ScenarioB, ScenarioTrain}

ScenarioInit == InitPool /\ InitUnit /\ opc = "direct" /\ feed \in Scenarios

ScenarioRun ==
    /\ opc = "direct"
    /\ \E events \in (1 .. MaxEvents) \cup {LongTarget}, cb \in BOOLEAN,
          failing \in SUBSET Ports :
         run(events, cb, failing)
    /\ UNCHANGED orchVars

\* the next scripted line of port p arrives and is processed (a loop
\* suspended inside its body goes on with the line it holds)
FeedHit(p) ==
    IF task[p] = "locking"
    THEN Hit(p, held[p]) /\ UNCHANGED nread
    ELSE /\ nread[p] < Len(feed[p])
         /\ Hit(p, feed[p][nread[p] + 1])
         /\ nread' = [nread EXCEPT ![p] = @ + 1]

FeedHitAny == \E p \in Ports : FeedHit(p)

ScenarioNext ==
    \/ ScenarioRun
    \/ DirectReturn
    \/ FeedHitAny
    \/ FailAny
    \/ Supervise
    \/ Join
    \/ ExecRecv
    \/ ExecCallbackRaises

ScenarioSpec == ScenarioInit /\ [][ScenarioNext]_vars

\* ------------------------------------------- EventDataCollection alone
\* a script that fills an EventDataCollection itself
StoreLimit == MaxEvents + 1
StoreTimes == {0, 5}

\* what add_event may be handed: a hit or nothing for each detector
Events == UNION {[S -> {HitRecord(t) : t \in StoreTimes}] : S \in SUBSET Ports}

StoreInit == InitPool /\ InitUnit /\ opc = "store" /\ feed = NoFeed

\* collection.add_event(event): no check is made on the event
StoreAdd ==
    /\ opc = "store"
    /\ len_ < StoreLimit
    /\ \E event \in Events :
         /\ pool_data' = add_event(pool_data, event)
         /\ arg' = event
    /\ lastOp' = "add_event"
    /\ raised' = NoExc

\* collection.clear()
StoreClear ==
    /\ opc = "store"
    /\ pool_data' = clear(pool_data)
    /\ lastOp' = "clear"
    /\ raised' = NoExc
    /\ arg' = NoEvent

\* what a call on the collection leaves alone
StoreFrame ==
    UNCHANGED << isOpen, event_data, first_coincidence_hit_time, hits,
                 callback, counted_hits, finished, task, taskResult, pipe,
                 executor, cbLog, pc, async_result, result, clock, lock, held,
                 stopLen, failLen, run_hits, reader, dt_events, dt_idx, run_result,
                 yielded, for_pc, s_dct, s_len, added >>
    /\ UNCHANGED orchVars
    /\ UNCHANGED feedVars

StoreNext ==
    \/ StoreAdd /\ StoreFrame
    \/ StoreClear /\ StoreFrame

StoreSpec == StoreInit /\ [][StoreNext]_vars

\* ------------------------------- EventDataCollection, field by field
\* a script that hands add_event lists of any length, a hit of which may
\* lack fields

\* what a cell of such a list may be: None, a whole hit, or a hit that
\* has comp_time only
Cells == {None} \cup {HitData(t) : t \in StoreTimes} \cup {HitRecord(0)}

\* the collection is not grown past this many events or column entries
ColumnLimit == MaxEvents

\* the lists handed to add_event: shorter than, as long as, and longer
\* than detector_count
Lists == UNION {[1..n -> Cells] : n \in 0..(NumPorts + 1)}

\* add_event's nested loop from its step n on (step n handles key
\* n \div len(data) and list index n % len(data)): what the columns are
\* when the loop ends or raises, and what it raised
RECURSIVE add_event_loop(_, _, _)
add_event_loop(d, list, n) ==
    IF n = Len(keys_) * Len(list)
    THEN [dct |-> d, exc |-> NoExc]
    ELSE LET key == keys_[(n \div Len(list)) + 1]
             index == n % Len(list)
             hit == list[index + 1]
         IN  IF index \notin Ports
             THEN [dct |-> d, exc |-> IndexErr]
             ELSE IF hit # None /\ key \notin DOMAIN hit
             THEN [dct |-> d, exc |-> KeyErr]
             ELSE add_event_loop(
                      [d EXCEPT ![key][index] =
                           Append(@, IF hit # None THEN hit[key] ELSE None)],
                      list, n + 1)

\* get_event(index), 1-based here, read from the columns: the hit or None
\* of every detector, or IndexError if a column has no such entry
column_get_event(index) ==
    IF \E k \in KeySet, p \in Ports : Len(s_dct[k][p]) < index
    THEN [exc |-> IndexErr, value |-> << >>]
    ELSE [exc |-> NoExc,
          value |-> [p \in Ports |->
                       IF s_dct["comp_time"][p][index] = None THEN None
                       ELSE [k \in KeySet |-> s_dct[k][p][index]]]]

ColumnInit == InitPool /\ InitUnit /\ opc = "columns" /\ feed = NoFeed

\* collection.add_event(list): _len += 1 only if the loop did not raise
ColumnAdd ==
    /\ opc = "columns"
    /\ s_len < ColumnLimit
    /\ \A k \in KeySet, p \in Ports : Len(s_dct[k][p]) < ColumnLimit
    /\ \E list \in Lists :
         LET out == add_event_loop(s_dct, list, 0)
         IN  /\ s_dct' = out.dct
             /\ raised' = out.exc
             /\ s_len' = IF out.exc = NoExc THEN s_len + 1 ELSE s_len
             /\ added' = IF out.exc = NoExc THEN Append(added, list) ELSE added
    /\ lastOp' = "add_event"

\* collection.clear()
ColumnClear ==
    /\ opc = "columns"
    /\ s_dct' = EmptyColumns
    /\ s_len' = 0
    /\ added' = << >>
    /\ raised' = NoExc
    /\ lastOp' = "clear"

\* what a call on the collection leaves alone
ColumnFrame ==
    UNCHANGED << isOpen, event_data, first_coincidence_hit_time, pool_data,
                 hits, callback, counted_hits, finished, task, taskResult,
                 pipe, executor, cbLog, pc, async_result, result, clock, lock,
                 held, stopLen, failLen, arg, run_hits, reader, dt_events,
                 dt_idx, run_result, yielded, for_pc >>
    /\ UNCHANGED orchVars
    /\ UNCHANGED feedVars

ColumnNext ==
    \/ ColumnAdd /\ ColumnFrame
    \/ ColumnClear /\ ColumnFrame

ColumnSpec == ColumnInit /\ [][ColumnNext]_vars

\* ------------------------------------------------------- Detector alone
\* a script that uses one Detector (save_data = True) without a pool
MaxReads == 4                    \* lines read from the port in all

DetInit == InitPool /\ InitUnit /\ opc = "detector" /\ feed = NoFeed

\* the records of n lines read one after the other from instant c on;
\* every line gets a later host time, so every record is distinct
Lines(c, n) == [i \in 1 .. n |-> HitRecord(c + i)]

\* the ways open() can go on a closed port: "ok", "connect" when
\* open_serial_connection raises, "warmup" when one of the six readline()
\* calls raises after reader and writer were set
OpenOutcomes == {"ok", "connect", "warmup"}

\* variant of already_open that lets open() through on an open port
already_open_ignored(r) == FALSE

\* if self._reader is not None: raise Exception("port already open")
already_open(r) == r

\* variant of events_after_open that keeps the history
events_after_open_kept(ev) == ev

\* self._events.clear()
events_after_open(ev) == << >>

\* Detector.open
dt_open(outcome) ==
    IF already_open(reader)
    THEN raised' = AlreadyOpen /\ UNCHANGED << reader, dt_events, dt_idx >>
    ELSE IF outcome = "connect"
    THEN raised' = OpenError /\ UNCHANGED << reader, dt_events, dt_idx >>
    ELSE IF outcome = "warmup"
    THEN raised' = ReadError /\ reader' = TRUE /\ UNCHANGED << dt_events, dt_idx >>
    ELSE /\ raised' = NoExc
         /\ reader' = TRUE
         /\ dt_events' = events_after_open(dt_events)
         /\ dt_idx' = -1

\* Detector.close
dt_close ==
    IF ~reader
    THEN raised' = PortNotOpen /\ UNCHANGED << reader, dt_events, dt_idx >>
    ELSE raised' = NoExc /\ reader' = FALSE /\ UNCHANGED << dt_events, dt_idx >>

\* Detector.measurement; ok is FALSE when reading or parsing the line fails
dt_measurement(ok) ==
    IF ~reader
    THEN raised' = PortNotOpen /\ UNCHANGED << reader, dt_events, dt_idx, clock >>
    ELSE IF ~ok
    THEN raised' = ReadError /\ UNCHANGED << reader, dt_events, dt_idx, clock >>
    ELSE /\ raised' = NoExc
         /\ clock' = clock + 1
         /\ dt_events' = Append(dt_events, HitRecord(clock + 1))
         /\ dt_idx' = Len(dt_events)
         /\ UNCHANGED reader

\* no call is made on the detector from inside the for loop
NotInLoop == for_pc # "loop"

\* what a call on the detector leaves alone
DetFrame ==
    UNCHANGED << isOpen, event_data, first_coincidence_hit_time, pool_data,
                 hits, callback, counted_hits, finished, task, taskResult,
                 pipe, executor, cbLog, pc, async_result, result, lock, held,
                 stopLen, failLen, arg, s_dct, s_len, added >>
    /\ UNCHANGED orchVars
    /\ UNCHANGED feedVars

DtOpen ==
    /\ opc = "detector" /\ NotInLoop
    /\ \E outcome \in OpenOutcomes : dt_open(outcome)
    /\ lastOp' = "open"
    /\ for_pc' = "none"
    /\ UNCHANGED << clock, run_hits, run_result, yielded >>
    /\ DetFrame

DtClose ==
    /\ opc = "detector" /\ NotInLoop
    /\ dt_close
    /\ lastOp' = "close"
    /\ for_pc' = "none"
    /\ UNCHANGED << clock, run_hits, run_result, yielded >>
    /\ DetFrame

DtMeasurement ==
    /\ opc = "detector" /\ NotInLoop
    /\ clock < MaxReads
    /\ \E ok \in BOOLEAN : dt_measurement(ok)
    /\ lastOp' = "measurement"
    /\ for_pc' = "none"
    /\ UNCHANGED << run_hits, run_result, yielded >>
    /\ DetFrame

\* Detector.run(n): close if open, open, n times measurement, close.
\* asyncio.run blocks the caller, so nothing else touches the detector
\* meanwhile.  k lines are read well; with k < n the next read raises and
\* the exception leaves run() with the port still open.
DtRun ==
    /\ opc = "detector" /\ NotInLoop
    /\ \E n \in 1 .. MaxEvents, k \in 0 .. MaxEvents, outcome \in OpenOutcomes :
         /\ k <= n
         /\ clock + k <= MaxReads
         /\ run_hits' = n
         /\ IF outcome # "ok"
            THEN \* open() raised out of run()
                 /\ raised' = IF outcome = "connect" THEN OpenError ELSE ReadError
                 /\ reader' = (outcome = "warmup")
                 /\ UNCHANGED << dt_events, dt_idx, clock, run_result >>
            ELSE /\ clock' = clock + k
                 /\ dt_events' = events_after_open(dt_events) \o Lines(clock, k)
                 /\ dt_idx' = Len(dt_events') - 1
                 /\ IF k = n
                    THEN /\ raised' = NoExc
                         /\ reader' = FALSE
                         /\ run_result' = Lines(clock, k)
                    ELSE /\ raised' = ReadError
                         /\ reader' = TRUE
                         /\ UNCHANGED run_result
    /\ lastOp' = "run"
    /\ for_pc' = "none"
    /\ UNCHANGED yielded
    /\ DetFrame

\* for hit in dt: __iter__
DtIter ==
    /\ opc = "detector" /\ NotInLoop
    /\ dt_idx' = 0
    /\ yielded' = << >>
    /\ for_pc' = "loop"
    /\ UNCHANGED << lastOp, raised, reader, dt_events, clock, run_hits,
                    run_result >>
    /\ DetFrame

\* for hit in dt: __next__, StopIteration ending the loop
DtNext ==
    /\ opc = "detector"
    /\ for_pc = "loop"
    /\ IF dt_idx = Len(dt_events)
       THEN for_pc' = "done" /\ UNCHANGED << dt_idx, yielded >>
       ELSE /\ yielded' = Append(yielded, dt_events[dt_idx + 1])
            /\ dt_idx' = dt_idx + 1
            /\ for_pc' = "loop"
    /\ UNCHANGED << lastOp, raised, reader, dt_events, clock, run_hits,
                    run_result >>
    /\ DetFrame

DetNext ==
    \/ DtOpen
    \/ DtClose
    \/ DtMeasurement
    \/ DtRun
    \/ DtIter
    \/ DtNext

DetSpec == DetInit /\ [][DetNext]_vars

\* ================================================================ claims
Zero == [p \in Ports |-> 0]
AllRead == \A p \in Ports : nread[p] = Len(feed[p])

\* C1: every event held in the store has entries from at least 2 distinct
\* detector indices, in every reachable state (failed and repeated runs
\* included).
C1_StoredEventsAreCoincidences ==
    \A i \in 1 .. len_ : Cardinality(Contributors(i)) >= 2

\* a run that was stopped by a read failure after an event was stored
C1_Witness == pc = "returned" /\ failLen >= 1 /\ len_ >= 1

\* C2: when a read failure occurs in a run, run() returns (events_so_far,
\* error) with error that failure and events_so_far the number of events in
\* the store at the moment of the failure, with or without a callback.
C2_ReadFailureIsReported ==
    (pc = "returned" /\ failLen # -1)
        => (result.exc = ReadError /\ result.count = failLen)

\* C3: when a run reaches its target with no read failure, run() returns
\* (hits, None) and the store then holds exactly hits events.
C3_CleanCompletion ==
    (pc = "returned" /\ failLen = -1 /\ \E p \in Ports : task[p] = "finished")
        => (result = Result(hits, NoExc) /\ len_ = hits)

ScenarioAEvent1 == [p \in Ports |-> IF p = 0 THEN HitRecord(0)
                                    ELSE IF p = 1 THEN HitRecord(5) ELSE None]
ScenarioAEvent2 == [p \in Ports |-> IF p = 0 THEN HitRecord(1000)
                                    ELSE IF p = 1 THEN HitRecord(1005) ELSE None]

\* the four hits of Scenario A were all read in the current run, which
\* started on a pool that had read nothing before, and no read failed
ScenarioADone ==
    /\ feed = ScenarioA
    /\ nreadStart = Zero
    /\ AllRead
    /\ failLen = -1

\* C4 as claimed: in Scenario A the run finalizes 2 events, {0: hit@0,
\* 1: hit@5} and {0: hit@1000, 1: hit@1005}.
C4_ScenarioA_TwoEvents ==
    ScenarioADone
        => (len_ = 2 /\ get_event(1) = ScenarioAEvent1
                     /\ get_event(2) = ScenarioAEvent2)

\* C4 amended: in Scenario A with a target of at least 2 events the run
\* finalizes exactly 1 event, {0: hit@0, 1: hit@5}; the hits at 1000 and
\* 1005 stay in the open window, which no later hit closes, and the run
\* is still waiting for lines.
C4_ScenarioA_OneEvent ==
    (ScenarioADone /\ hits >= 2)
        => /\ len_ = 1
           /\ counted_hits = 1
           /\ get_event(1) = ScenarioAEvent1
           /\ AsList(event_data) = ScenarioAEvent2
           /\ pc = "running"

C4_Witness == ScenarioADone /\ hits >= 2 /\ len_ = 1

\* C5: Scenario B, only source 0 ever produces hits: no event is ever
\* finalized, the store stays empty and counted_hits stays 0.
C5_ScenarioB_NoEvents ==
    (feed = ScenarioB) => (len_ = 0 /\ counted_hits = 0 /\ cbLog = << >>)

\* source 0 has hit five times and three windows were closed and dropped
C5_Witness ==
    feed = ScenarioB /\ AllRead /\ nreadStart = Zero
        /\ first_coincidence_hit_time = 150

\* the step is a hit that closes a window holding more than one entry
ClosesCoincidence ==
    /\ Cardinality(DOMAIN event_data) > 1
    /\ \E p \in Ports :
         /\ task[p] = "reading"
         /\ clock' - first_coincidence_hit_time > threshold
         /\ Hit(p, clock')

\* the step is the start of run(), whose open() clears the store
ClearsStore == pc = "idle" /\ pc' \in {"running", "returned"}

\* C6: the store length grows by exactly 1 with every closing of a window
\* that holds more than one entry and by nothing else, and it only goes
\* down through clear(), which sets it to 0.
C6_LengthSteps ==
    [][ /\ ClosesCoincidence => pool_data'.len = pool_data.len + 1
        /\ pool_data'.len > pool_data.len => ClosesCoincidence
        /\ pool_data'.len < pool_data.len => (ClearsStore /\ pool_data'.len = 0)
      ]_vars

\* two windows were finalized and a third one is open
C6_Witness == len_ = 2 /\ Cardinality(DOMAIN event_data) = 1 /\ pc = "running"

\* C7: with a callback registered the callback is invoked exactly once for
\* every event appended to the store during the run, in order, and for
\* nothing else (the callback itself never raising).
C7_CallbackOncePerEvent ==
    (pc = "returned" /\ callback /\ executor.state = "exited")
        => /\ Len(cbLog) = len_
           /\ \A i \in 1 .. len_ : cbLog[i] = to_dict(i)

\* C8: an exception raised in the callback does not alter the run: while
\* no loop has stopped, every source loop can still process its next line
\* after the callback has raised.
C8_LoopsKeepReading ==
    (/\ pc = "running"
     /\ executor.state = "crashed"
     /\ \A q \in Ports : task[q] = "reading")
        => \A p \in Ports :
             (/\ nread[p] < Len(feed[p])
              /\ feed[p][nread[p] + 1] >= clock)
                => ENABLED FeedHit(p)

\* C9: whenever run() returns, every detector is closed.
C9_ClosedOnReturn ==
    pc = "returned" => \A p \in Ports : ~isOpen[p]

\* the step is the loop body of measurement_from_script after pool.run
AfterInvocation == opc = "called" /\ opc' # "called"

\* C10: the retry budget starts at 5, is decremented by 1 exactly when an
\* invocation reports zero events and the one before it did too, is never
\* changed otherwise, and the loop is aborted exactly when the budget is 1
\* after an invocation.
C10_RetryBudget ==
    /\ tries = 5
    /\ [][ /\ (AfterInvocation /\ result.count = 0 /\ last_event_count = 0)
                => tries' = tries - 1
           /\ tries' # tries
                => (AfterInvocation /\ result.count = 0 /\ last_event_count = 0
                    /\ tries' = tries - 1)
           /\ AfterInvocation => (last_event_count' = result.count
                                  \/ opc' = "aborted")
           /\ (opc' = "aborted" /\ opc # "aborted")
                <=> (AfterInvocation /\ tries' = 1)
         ]_vars

\* the budget was used up and the measurement aborted
C10_Witness == opc = "aborted" /\ tries = 1

\* C11: the cumulative count of measurement_from_script never exceeds the
\* target EVENT_COUNT, and when the loop is left either the count equals
\* the target or the retry budget is used up.
C11_CountWithinTarget ==
    /\ events_run <= EVENT_COUNT
    /\ opc = "done" => events_run = EVENT_COUNT
    /\ opc = "aborted" => tries = 1

\* C12: when measurement_from_script leaves its loop (target reached or
\* abort), the data it saves holds one entry for every event counted in
\* any invocation: the saved event_count equals the cumulative count.
C12_SavedCountIsCumulative ==
    opc \in {"done", "aborted"} => Len(data) = events_run

\* C13: add_event fails with a type/shape error and leaves the store
\* unchanged whenever the event has fewer than 2 entries, so the store
\* only ever receives events with at least 2 entries.
C13_AddEventRejectsNonCoincidence ==
    /\ (lastOp = "add_event" /\ Cardinality(DOMAIN arg) < 2) => raised # NoExc
    /\ \A i \in 1 .. len_ : Cardinality(Contributors(i)) >= 2

\* C14: open() on an open detector fails, close() on a detector that is
\* not open fails, measurement() on a detector that is not open fails, and
\* each of these failed calls leaves the detector as it was.
C14_LifecycleErrors ==
    [][ /\ (DtOpen /\ reader)
            => (raised' = AlreadyOpen
                /\ UNCHANGED << reader, dt_events, dt_idx >>)
        /\ (DtClose /\ ~reader)
            => (raised' = PortNotOpen
                /\ UNCHANGED << reader, dt_events, dt_idx >>)
        /\ (DtMeasurement /\ ~reader)
            => (raised' = PortNotOpen
                /\ UNCHANGED << reader, dt_events, dt_idx >>)
      ]_vars

\* open() was refused on an open detector that has read a line
C14_Witness ==
    lastOp = "open" /\ raised = AlreadyOpen /\ reader /\ Len(dt_events) >= 1

\* C15: Detector.run(hits) returns exactly hits records in the order they
\* were read and leaves the detector closed, and a for loop over the
\* detector right afterwards yields exactly those records in that order.
C15_RunThenIterate ==
    /\ (lastOp = "run" /\ raised = NoExc)
         => /\ Len(run_result) = run_hits
            /\ ~reader
            /\ \A i, j \in 1 .. Len(run_result) :
                 i < j => run_result[i].comp_time < run_result[j].comp_time
    /\ (lastOp = "run" /\ raised = NoExc /\ for_pc = "done")
         => yielded = run_result

\* a run of MaxEvents hits on a detector that had read lines before, and
\* the loop over it has ended
C15_Witness ==
    /\ lastOp = "run" /\ raised = NoExc /\ for_pc = "done"
    /\ Len(yielded) = MaxEvents
    /\ yielded[1].comp_time > 1

\* a read loop of the current run has stopped: target reached or read failed
StopReached == pc \in {"running", "joining"} /\ \E p \in Ports : task[p] \in Done

\* C16: once a run has reached a stop condition no loop accepts a further
\* hit: the window, its start time, counted_hits and the store stay as
\* they are, so the store never holds more than hits events of one run.
C16_NothingAfterStop ==
    /\ [][ StopReached
             => UNCHANGED << event_data, first_coincidence_hit_time,
                             counted_hits, pool_data >> ]_vars
    /\ [](pc \in {"running", "joining", "returned"} => len_ <= hits)

\* the step is a call of run() that gets as far as starting the read loops
StartsRun == pc = "idle" /\ pc' = "running"

\* C17: the window does not outlive a run: whenever run() starts its read
\* loops the accumulator is empty, whatever the previous run on the pool
\* left, so nothing of an earlier run is stored again.
C17_WindowEmptyAtStart ==
    [][ StartsRun => event_data' = NoEvent ]_vars

RepeatedHit(p, t) ==
    /\ task[p] = "reading"
    /\ in_threshold(t, first_coincidence_hit_time)
    /\ p \in DOMAIN event_data
    /\ Hit(p, t)

\* the event that the step appends to the store
Appended == [p \in Ports |-> pool_data'.dct[p][pool_data'.len]]

\* C19: within one window the first hit of each detector wins: a hit inside
\* the window of a detector that already has an entry changes neither the
\* window, its start time, counted_hits nor the store; while the window
\* start stays the same no entry is replaced; and what is stored is the
\* window as it stands, so every stored event holds the first hit of each
\* of its detectors.
C19_FirstHitWins ==
    [][ /\ \A p \in Ports :
             RepeatedHit(p, clock')
                => UNCHANGED << event_data, first_coincidence_hit_time,
                                counted_hits, pool_data >>
        /\ first_coincidence_hit_time' = first_coincidence_hit_time
             => \A p \in DOMAIN event_data :
                    p \in DOMAIN event_data' /\ event_data'[p] = event_data[p]
        /\ pool_data'.len = pool_data.len + 1
             => Appended = AsList(event_data)
      ]_vars

\* the latest line was read inside the window and left no trace: the only
\* entry of the window is an earlier hit
C19_Witness ==
    /\ pc = "running"
    /\ in_threshold(clock, first_coincidence_hit_time)
    /\ Cardinality(DOMAIN event_data) = 1
    /\ \A p \in DOMAIN event_data : event_data[p].comp_time < clock

\* the step is a pass over a hit of detector p at time t inside the
\* window, the window having no entry for p yet
AcceptedHit(p, t) ==
    /\ task[p] = "reading"
    /\ in_threshold(t, first_coincidence_hit_time)
    /\ p \notin DOMAIN event_data
    /\ Hit(p, t)

\* the step is a pass over a hit outside the window, which closes a
\* window that holds hits of at least two detectors
ClosingHit(p, t) ==
    /\ task[p] = "reading"
    /\ ~in_threshold(t, first_coincidence_hit_time)
    /\ Cardinality(DOMAIN event_data) >= 2
    /\ Hit(p, t)

\* C20: hits of different detectors that were accepted into the same open
\* window are stored together in one event when the window is closed: an
\* accepted hit joins the entries the window has, and the event stored at
\* the closing holds every entry of the window and nothing else.
C20_WindowStoredWhole ==
    [][ \A p \in Ports :
          /\ AcceptedHit(p, clock')
               => /\ DOMAIN event_data' = DOMAIN event_data \cup {p}
                  /\ event_data'[p] = HitRecord(clock')
                  /\ \A q \in DOMAIN event_data : event_data'[q] = event_data[q]
          /\ ClosingHit(p, clock')
               => /\ pool_data'.len = pool_data.len + 1
                  /\ \A q \in Ports :
                        Appended[q] = IF q \in DOMAIN event_data
                                      THEN event_data[q] ELSE None
      ]_vars

\* the last stored event holds hits of every detector, read at different
\* times
C20_Witness ==
    /\ len_ >= 1
    /\ Contributors(len_) = Ports
    /\ \E p, q \in Ports :
          get_event(len_)[p].comp_time # get_event(len_)[q].comp_time

\* C21: measurement_from_script gives up only when the 5 latest
\* invocations in a row reported zero events, and an invocation that
\* reports events restores the retry budget.
C21_AbortNeedsFiveZeroInARow ==
    /\ [](opc = "aborted" => zero_run >= InitialTries)
    /\ [][ (AfterInvocation /\ result.count > 0) => tries' = InitialTries ]_vars

\* C22: whatever add_event and clear calls were made, raising ones
\* included, every column under every field and detector holds exactly
\* len() entries, and get_event(i) for every i below len() gives the i-th
\* list added since the last clear, hit by hit.
C22_ColumnsHoldLenEntries ==
    opc = "columns" =>
      /\ \A k \in KeySet, p \in Ports : Len(s_dct[k][p]) = s_len
      /\ \A i \in 1..s_len :
            /\ column_get_event(i).exc = NoExc
            /\ column_get_event(i).value =
                   [p \in Ports |-> IF p + 1 <= Len(added[i])
                                    THEN added[i][p + 1] ELSE None]

\* C23: between operations on the pool every detector is in the
\* connection state of detector 0, so is_open tells whether all are open,
\* and no run() ends with "port already open".
C23_DetectorsShareConnectionState ==
    pc \in {"idle", "returned"} =>
      /\ \A p \in Ports : isOpen[p] = is_open
      /\ result.exc # AlreadyOpen

====
